---------------------------- MODULE Spec2Model ----------------------------
(***************************************************************************)
(* A model of the chess-ranking scripts chess_elo.py (one Elo update per   *)
(* game) and ranking.py (per-period Elo / Glicko update with a two-phase   *)
(* calculate_period / apply_period loop).                                  *)
(*                                                                         *)
(* Numbers.  The scripts compute in IEEE doubles; the model computes in    *)
(* fixed point on 32-bit integers:                                         *)
(*   ratings                 milli-points  (1500   -> 1500000)             *)
(*   rating deviations       centi-points  (350    -> 35000)               *)
(*   expectations, weights   thousandths   (0.5    -> 500)                 *)
(* Divisions truncate unless RoundDiv (round half to even, the IEEE        *)
(* default) is written.  10 ** x is evaluated by Pow10 from a table of     *)
(* 10^(j/8) with linear interpolation; a negative exponent is the          *)
(* reciprocal of the positive one.                                         *)
(***************************************************************************)
EXTENDS Integers, Sequences, FiniteSets, TLC

(***************************************************************************)
(* Program constants (ranking.py lines 14-38, chess_elo.py lines 76-81).   *)
(***************************************************************************)
STARTING_ELO == 1500
DEFAULT_K_FACTOR == 20
ELO_DIFF == 400
STARTING_RD == 350
APPROX_RD == 60
UNCERT_TIME == 10
MIN_RD == 50
\* PENALTY = 0.00 and EXP_PENALTY = 0.2, in thousandths
PENALTY == 0
EXP_PENALTY == 200
MAX_PENALTY == 20
BONUS == 0
\* PENALTY_CUTOFF = STARTING_ELO * 0.75, in points
PENALTY_CUTOFF == (STARTING_ELO * 3) \div 4
\* np.log(10) in units of 1e-4, np.pi in thousandths
LN10 == 23026
PI == 3142
\* the value of an unset buffer slot (Python's None)
None == -1
\* the player a failed League.get_player lookup returns (Python's None)
NoPlayer == "None"

Milli == 10 * 100
Centi == 10 * 10

(***************************************************************************)
(* Fixed-point helpers.                                                    *)
(***************************************************************************)
Max(a, b) == IF a >= b THEN a ELSE b
Min(a, b) == IF a <= b THEN a ELSE b
Abs(a) == IF a >= 0 THEN a ELSE 0 - a

\* a / b rounded to the nearest integer, ties to even; b > 0
RoundDiv(a, b) ==
    LET n == Abs(a)
        q == n \div b
        r == n % b
        m == IF 2 * r > b \/ (2 * r = b /\ q % 2 = 1) THEN q + 1 ELSE q
    IN IF a >= 0 THEN m ELSE 0 - m

\* floor(a * b / c) for 0 <= a, 0 < c, with c * b inside 32 bits
MulDiv(a, b, c) == (a \div c) * b + ((a % c) * b) \div c

RECURSIVE IsqrtFrom(_, _, _)
IsqrtFrom(n, lo, hi) ==
    IF lo >= hi THEN lo
    ELSE LET mid == (lo + hi + 1) \div 2
         IN IF mid * mid <= n THEN IsqrtFrom(n, mid, hi)
            ELSE IsqrtFrom(n, lo, mid - 1)

\* floor(sqrt(n)) for 0 <= n < 2^31
Isqrt(n) == IsqrtFrom(n, 0, 46340)

\* 1000 * 10^(j/8), j = 0..8
Pow10Table == <<1000, 1334, 1778, 2371, 3162, 4217, 5623, 7499, 10000>>

RECURSIVE TenTo(_)
TenTo(a) == IF a = 0 THEN 1 ELSE 10 * TenTo(a - 1)

\* 1000 * 10^(x / (ELO_DIFF * 1000)) for x >= 0 in milli-points
Pow10Pos(x) ==
    LET unit == ELO_DIFF * Milli
        a == x \div unit
        r == x % unit
        step == unit \div 8
        j == r \div step
        lo == Pow10Table[j + 1]
        hi == Pow10Table[j + 2]
    IN TenTo(a) * (lo + ((hi - lo) * (r - j * step)) \div step)

Last(s) == s[Len(s)]

TruncDiv(a, b) == IF a >= 0 THEN a \div b ELSE 0 - ((0 - a) \div b)

RECURSIVE SumSeq(_)
SumSeq(s) == IF s = <<>> THEN 0 ELSE s[1] + SumSeq(Tail(s))

RECURSIVE IndexFrom(_, _, _)
IndexFrom(s, x, i) ==
    IF i > Len(s) THEN 0 ELSE IF s[i] = x THEN i ELSE IndexFrom(s, x, i + 1)

\* list.index(x), 1-based; 0 stands for the ValueError of a missing element
Index(s, x) == IndexFrom(s, x, 1)

RECURSIVE SortSet(_)
SortSet(S) ==
    IF S = {} THEN <<>>
    ELSE LET m == CHOOSE x \in S : \A y \in S : x <= y
         IN <<m>> \o SortSet(S \ {m})

RECURSIVE Dedupe(_)
Dedupe(s) ==
    IF s = <<>> THEN <<>>
    ELSE LET rest == Dedupe(SubSeq(s, 1, Len(s) - 1))
         IN IF Index(rest, Last(s)) > 0 THEN rest ELSE Append(rest, Last(s))

(***************************************************************************)
(* Bounds of the model and the inputs drawn from them.                     *)
(***************************************************************************)
\* longest free game log; its dates are 1..MaxGames, which covers every
\* ordering of up to MaxGames game days
MaxGames == 2
\* number of further game days in the logs where player A sits out
MaxIdle == 28
\* number of repeated Game.play calls a client makes
MaxReplays == 1

\* names.txt: the league, in file order
PlayerOrder == <<"A", "B", "C">>
Players == {PlayerOrder[i] : i \in 1..Len(PlayerOrder)}
NumPlayers == Len(PlayerOrder)
\* an id that names.txt does not hold
UnknownIds == {"ZZ"}
\* winner_id: 0 white, 1 black, anything else (2 here) remis
Winners == {0, 1, 2}

\* the pairings of a game line: white is listed before black in names.txt
Pairings ==
    {<<PlayerOrder[x[1]], PlayerOrder[x[2]]>> :
        x \in {y \in (1..NumPlayers) \X (1..NumPlayers) : y[1] < y[2]}}

GameLines(pairings, lastDate) ==
    {[date |-> d, white |-> pr[1], black |-> pr[2], winner |-> w] :
        d \in 1..lastDate, pr \in pairings, w \in Winners}

\* games.txt as the sequence of its game lines, each under the date line
\* in effect; dates in any order
SmallFiles ==
    UNION {[1..n -> GameLines(Pairings, MaxGames)] : n \in 1..MaxGames}

\* A plays B on day 1, then B and C play on each of MaxIdle further days
IdleFiles ==
    {[i \in 1..(MaxIdle + 1) |->
        IF i = 1 THEN [date |-> 1, white |-> "A", black |-> "B", winner |-> w1]
        ELSE [date |-> i, white |-> "B", black |-> "C", winner |-> w2]] :
      w1 \in Winners, w2 \in Winners}

\* pairings with an id that is not in the league
UnknownPairings ==
    {<<u, p>> : u \in UnknownIds, p \in Players}
        \cup {<<p, u>> : p \in Players, u \in UnknownIds}

\* logs of one or two lines, one of them with an unknown id
LookupFiles ==
    {f \in UNION {[1..n -> GameLines(Pairings \cup UnknownPairings, 2)] : n \in 1..2} :
        \E i \in 1..Len(f) : <<f[i].white, f[i].black>> \in UnknownPairings}

\* settings of the module-level PENALTY, in thousandths
PenaltyConfigs == {PENALTY, 100, 900}

(***************************************************************************)
(* State.                                                                  *)
(***************************************************************************)
VARIABLES
    prog,       \* which script runs: "chess_elo" or "ranking"
    GLICKO,     \* ranking.py's mode flag, set by parse_args
    penalty,    \* ranking.py's PENALTY, thousandths
    file,       \* games.txt
    pc,         \* main's position: read, play, calculate, apply, table, done, crashed
    gamelist,   \* main's games: the Game objects in file order
    dates,      \* ranking.py's __dates__
    gameday,    \* main's index into __dates__ (1-based)
    gi,         \* position in the loop over the games to play
    pi,         \* position in the loop over league.players
    counts,     \* whitewin, blackwin, remis
    games,      \* ranking Player.games: indices into gamelist
    elo,        \* ranking Player.elo
    rdev,       \* ranking Player.rdev
    buffer,     \* ranking Player.buffer
    curelo,     \* chess_elo Player.elo
    elohist,    \* chess_elo Player.elohist
    staged,     \* history: players whose calculate_period ran this period
    applied,    \* history: players whose apply_period ran this period
    preElo,     \* history: Player.elo of every player when the period began
    preRdev,    \* history: Player.rdev of every player when the period began
    branch,     \* history: the branch each player's last calculate_period took
    contrib,    \* history: per game and player, the periods it entered the sums
    plays,      \* history: per game, the number of Game.play calls
    processed   \* history: the dates of the periods completed, in order

vars == <<prog, GLICKO, penalty, file, pc, gamelist, dates, gameday, gi, pi,
          counts, games, elo, rdev, buffer, curelo, elohist, staged, applied,
          preElo, preRdev, branch, contrib, plays, processed>>

rankingVars == <<dates, gameday, pi, counts, games, elo, rdev, buffer>>
eloVars == <<curelo, elohist>>
historyVars == <<staged, applied, preElo, preRdev, branch, contrib, processed>>
inputVars == <<prog, GLICKO, penalty, file>>

(***************************************************************************)
(* ranking.py: the rating formulas.                                        *)
(***************************************************************************)
\* GLICKO_C = sqrt((STARTING_RD^2 - APPROX_RD^2) / UNCERT_TIME), centi
GLICKO_C ==
    Isqrt(((STARTING_RD * STARTING_RD - APPROX_RD * APPROX_RD) * Centi * Centi)
            \div UNCERT_TIME)
\* GLICKO_Q = ln(10) / ELO_DIFF, in units of 1e-6
GLICKO_Q == (LN10 * 100) \div ELO_DIFF
\* GLICKO_Q ** 2, in units of 1e-8
GLICKO_Q2 == (GLICKO_Q * GLICKO_Q) \div 10000

\* mutant: the rating is read from the player's buffer once it is staged
CurEloStaged(p) == IF buffer[p][1] # None THEN buffer[p][1] ELSE Last(elo[p])

\* self.elo[-1], self.rdev[-1]
CurElo(p) == Last(elo[p])
CurRdev(p) == Last(rdev[p])

\* 1 / (1 + 10 ** (gw * d / ELO_DIFF)) in thousandths; d in milli-points,
\* gw in thousandths
Logistic(gw, d) ==
    LET p10 == Pow10Pos((gw * Abs(d)) \div Milli)
    IN IF d >= 0 THEN RoundDiv(Milli * Milli, Milli + p10)
       ELSE RoundDiv(Milli * p10, p10 + Milli)

\* Player.g_weight, thousandths
GWeight(p) ==
    IF ~GLICKO THEN Milli
    ELSE LET qrd == (LN10 * CurRdev(p)) \div ELO_DIFF
             t == ((qrd * Milli) \div PI) \div Milli
         IN (Milli * Milli) \div Isqrt(Milli * Milli + 3 * t * t)

\* Player.expected, thousandths
Expected(self, other) == Logistic(GWeight(other), CurElo(other) - CurElo(self))

\* Game.other_player
OtherPlayer(g, p) == IF g.white = p THEN g.black ELSE g.white

\* mutant: the black-wins branch tests self.white, as the white-wins branch
WinValueWhite(g, p) ==
    IF g.winner_id = 0 THEN (IF g.white = p THEN Milli ELSE 0)
    ELSE IF g.winner_id = 1 THEN (IF g.white = p THEN Milli ELSE 0)
    ELSE Milli \div 2

\* Game.win_value, thousandths
WinValue(g, p) ==
    IF g.winner_id = 0 THEN (IF g.white = p THEN Milli ELSE 0)
    ELSE IF g.winner_id = 1 THEN (IF g.black = p THEN Milli ELSE 0)
    ELSE Milli \div 2

RECURSIVE PeriodsLoop(_, _, _, _)
PeriodsLoop(now, gs, i, last) ==
    IF i > Len(gs) THEN last
    ELSE PeriodsLoop(now, gs, i + 1,
            IF Index(dates, now) <= Index(dates, gamelist[gs[i]].date)
            THEN gamelist[gs[IF i = 1 THEN Len(gs) ELSE i - 1]].date
            ELSE last)

\* periods(now, games): game days since the player's last game
Periods(now, gs) ==
    Index(dates, now) - Index(dates, PeriodsLoop(now, gs, 1, gamelist[Last(gs)].date))

\* np.exp(x) for x >= 0, both in thousandths, by its power series
RECURSIVE ExpTerms(_, _, _)
ExpTerms(x, k, term) ==
    IF term = 0 THEN 0
    ELSE term + ExpTerms(x, k + 1, (term * x) \div (k * Milli))
Exp(x) == ExpTerms(x, 1, Milli)

\* np.exp(EXP_PENALTY * n), thousandths
ExpPenalty(n) == Exp(EXP_PENALTY * n)

\* max(self.elo[-1] - PENALTY_CUTOFF, 0) * PENALTY, milli-points
BasePenalty(p) ==
    (Max(CurElo(p) - PENALTY_CUTOFF * Milli, 0) * penalty) \div Milli

\* mutant: the date filter is missing
LastGamesUnfiltered(p, now) == games[p]

\* last_games = [game for game in self.games if game.date == now]
LastGames(p, now) == SelectSeq(games[p], LAMBDA g : gamelist[g].date = now)

\* the entries one game adds to d_comps and r_comps: thousandths, millionths
Comps(p, g) ==
    LET other == OtherPlayer(gamelist[g], p)
        e == Expected(p, other)
        gw == GWeight(other)
    IN [d |-> ((((gw * gw) \div Milli) * ((e * (Milli - e)) \div Milli))) \div Milli,
        r |-> gw * (WinValue(gamelist[g], p) - e)]

\* d_comps and r_comps over last_games
RECURSIVE AllComps(_, _)
AllComps(p, gs) ==
    IF gs = <<>> THEN <<>> ELSE <<Comps(p, gs[1])>> \o AllComps(p, Tail(gs))

\* sum(d_comps), sum(r_comps)
RECURSIVE SumD(_)
SumD(cs) == IF cs = <<>> THEN 0 ELSE cs[1].d + SumD(Tail(cs))
RECURSIVE SumR(_)
SumR(cs) == IF cs = <<>> THEN 0 ELSE cs[1].r + SumR(Tail(cs))

\* mutant: the cap at STARTING_RD is missing
IdleRdevUncapped(p, n) == Isqrt(CurRdev(p) * CurRdev(p) + GLICKO_C * n * Centi)

\* the idle branch's rdev: min(sqrt(rdev^2 + GLICKO_C * n), STARTING_RD), centi
IdleRdev(p, n) ==
    Min(Isqrt(CurRdev(p) * CurRdev(p) + GLICKO_C * n * Centi), STARTING_RD * Centi)

\* the played branch's rdev: max(sqrt(1/rdev^2 + 1/d2_weight) ** -1, MIN_RD),
\* computed as sqrt(rdev^2 / (1 + rdev^2 * q^2 * sum(d_comps))), centi
PlayedRdev(p, sumd) ==
    LET rd2 == CurRdev(p) * CurRdev(p)
        x == (((((rd2 \div (Centi * Centi)) * sumd) \div Milli) * GLICKO_Q2))
                \div 10000
    IN Max(Isqrt(MulDiv(rd2, 10000, 10000 + x)), MIN_RD * Centi)

\* the played branch's rating in Glicko mode, milli-points:
\* elo + GLICKO_Q * rdev^2 * sum(r_comps) + BONUS
PlayedEloGlicko(p, sumr, newrd) ==
    LET qd2 == (((newrd * newrd) \div (Centi * Centi)) * GLICKO_Q) \div 10000
    IN CurElo(p) + TruncDiv(qd2 * TruncDiv(sumr, 100), Milli) + BONUS * Milli

\* the played branch's rating in classic mode, milli-points:
\* elo + sum(r_comps) * k_factor
PlayedEloClassic(p, sumr, k) == CurElo(p) + TruncDiv(sumr * k, Milli)

\* which branch calculate_period(now) takes for p
Branch(p, now) ==
    IF games[p] = <<>> THEN "never"
    ELSE IF gamelist[Last(games[p])].date # now THEN "idle"
    ELSE "played"

\* the pair calculate_period(now) writes to self.buffer: <<elo, rdev>>
CalcBuffer(p, now) ==
    LET br == Branch(p, now)
    IN IF br = "never" THEN <<CurElo(p) - BasePenalty(p), CurRdev(p)>>
       ELSE IF br = "idle" THEN
           LET n == Periods(now, games[p])
           IN <<CurElo(p) - (BasePenalty(p) * ExpPenalty(n - 1)) \div Milli,
                IF GLICKO THEN IdleRdev(p, n) ELSE 0>>
       ELSE
           LET cs == AllComps(p, LastGames(p, now))
               sumr == SumR(cs)
               newrd == PlayedRdev(p, SumD(cs))
           IN IF GLICKO THEN <<PlayedEloGlicko(p, sumr, newrd), newrd>>
              ELSE <<PlayedEloClassic(p, sumr, DEFAULT_K_FACTOR), 0>>

(***************************************************************************)
(* chess_elo.py: the rating formulas.                                      *)
(***************************************************************************)
\* Player.expected of chess_elo.py, thousandths
EloExpected(self, other) == Logistic(Milli, curelo[other] - curelo[self])

\* diff_elo of Game.play, thousandths, and the player it is credited to
EloDiff(g) ==
    IF g.winner_id = 0 THEN Milli - EloExpected(g.white, g.black)
    ELSE IF g.winner_id = 1 THEN Milli - EloExpected(g.black, g.white)
    ELSE Milli \div 2 - EloExpected(g.white, g.black)
EloGainer(g) == IF g.winner_id = 1 THEN g.black ELSE g.white
EloLoser(g) == IF g.winner_id = 1 THEN g.white ELSE g.black

(***************************************************************************)
(* Construction.                                                           *)
(***************************************************************************)
\* League.get_player: the player, or None after "player ... not found"
GetPlayer(name) == IF name \in Players THEN name ELSE NoPlayer

\* Game.__init__ for line i of the file
NewGame(line, date) ==
    [white |-> GetPlayer(line.white), black |-> GetPlayer(line.black),
     winner_id |-> line.winner, date |-> date, played |-> FALSE]

\* mutant: the dates are deduplicated in file order and never sorted
ReadDatesUnsorted(f) == Dedupe([i \in 1..Len(f) |-> f[i].date])

\* __dates__ after read_gamestxt: list(set(dates)), sorted
ReadDates(f) == SortSet({f[i].date : i \in 1..Len(f)})

InitWith(files, penalties) ==
    /\ prog \in {"chess_elo", "ranking"}
    /\ GLICKO \in BOOLEAN
    /\ prog = "chess_elo" => ~GLICKO
    /\ penalty \in penalties
    /\ file \in files
    /\ pc = "read"
    /\ gamelist = <<>>
    /\ dates = <<>>
    /\ gameday = 1
    /\ gi = 1
    /\ pi = 1
    /\ counts = [whitewin |-> 0, blackwin |-> 0, remis |-> 0]
    /\ games = [p \in Players |-> <<>>]
    /\ elo = [p \in Players |-> <<STARTING_ELO * Milli>>]
    /\ rdev = [p \in Players |-> <<STARTING_RD * Centi>>]
    /\ buffer = [p \in Players |-> <<None, None>>]
    /\ curelo = [p \in Players |-> STARTING_ELO * Milli]
    /\ elohist = [p \in Players |-> <<STARTING_ELO * Milli>>]
    /\ staged = {}
    /\ applied = {}
    /\ preElo = elo
    /\ preRdev = rdev
    /\ branch = [p \in Players |-> "none"]
    /\ contrib = <<>>
    /\ plays = <<>>
    /\ processed = <<>>

Init == InitWith(SmallFiles \cup IdleFiles, {PENALTY})

(***************************************************************************)
(* ranking.py: main.                                                       *)
(***************************************************************************)
\* main, lines 55: games = read_gamestxt(GAMESFILE)
ReadGames ==
    /\ prog = "ranking"
    /\ pc = "read"
    /\ gamelist' = [i \in 1..Len(file) |-> NewGame(file[i], file[i].date)]
    /\ dates' = ReadDates(file)
    /\ contrib' = [i \in 1..Len(file) |-> [p \in Players |-> <<>>]]
    /\ plays' = [i \in 1..Len(file) |-> 0]
    /\ pc' = "play"
    /\ UNCHANGED <<inputVars, gameday, gi, pi, counts, games, elo, rdev, buffer,
                   eloVars, staged, applied, preElo, preRdev, branch, processed>>

\* period_games = [game for game in games if game.date == date]
PeriodGames ==
    SelectSeq([i \in 1..Len(gamelist) |-> i],
              LAMBDA g : gamelist[g].date = dates[gameday])

\* mutant: the membership test is missing
AddGameAlways(gs, g) == Append(gs, g)

\* Player.add_game
AddGame(gs, g) == IF Index(gs, g) > 0 THEN gs ELSE Append(gs, g)

\* Game.play of ranking.py: black.add_game(self), then white.add_game(self);
\* a None player raises AttributeError at its call
GamesAfterPlay(g) ==
    LET b == gamelist[g].black
        w == gamelist[g].white
        afterBlack == IF b = NoPlayer THEN games
                      ELSE [games EXCEPT ![b] = AddGame(@, g)]
    IN IF b = NoPlayer \/ w = NoPlayer THEN afterBlack
       ELSE [afterBlack EXCEPT ![w] = AddGame(@, g)]
PlayRaises(g) == gamelist[g].black = NoPlayer \/ gamelist[g].white = NoPlayer

\* Game.play, the attribute the call leaves in self.played
PlayedAfterPlay(g) == gamelist[g].played

\* main, lines 61-68: one turn of the loop over period_games
PlayGame ==
    /\ prog = "ranking"
    /\ pc = "play"
    /\ LET g == PeriodGames[gi]
           w == gamelist[g].winner_id
       IN /\ games' = GamesAfterPlay(g)
          /\ plays' = [plays EXCEPT ![g] = @ + 1]
          /\ gamelist' = [gamelist EXCEPT ![g].played = PlayedAfterPlay(g)]
          /\ IF PlayRaises(g)
             THEN /\ pc' = "crashed"
                  /\ UNCHANGED <<counts, gi>>
             ELSE /\ counts' =
                        IF w = 0 THEN [counts EXCEPT !.whitewin = @ + 1]
                        ELSE IF w = 1 THEN [counts EXCEPT !.blackwin = @ + 1]
                        ELSE [counts EXCEPT !.remis = @ + 1]
                  /\ IF gi < Len(PeriodGames)
                     THEN /\ gi' = gi + 1
                          /\ pc' = "play"
                     ELSE /\ gi' = 1
                          /\ pc' = "calculate"
    /\ UNCHANGED <<inputVars, dates, gameday, pi, elo, rdev, buffer, eloVars,
                   historyVars>>

\* the games of p that calculate_period(now) sums over
SummedGames(p, now) == IF Branch(p, now) = "played" THEN LastGames(p, now) ELSE <<>>

RECURSIVE Contribute(_, _, _, _)
Contribute(c, p, gs, now) ==
    IF gs = <<>> THEN c
    ELSE Contribute([c EXCEPT ![gs[1]][p] = Append(@, now)], p, Tail(gs), now)

\* main, lines 69-70: player.calculate_period(date) for the next player
CalculatePeriod ==
    /\ prog = "ranking"
    /\ pc = "calculate"
    /\ LET p == PlayerOrder[pi]
           now == dates[gameday]
       IN /\ buffer' = [buffer EXCEPT ![p] = CalcBuffer(p, now)]
          /\ branch' = [branch EXCEPT ![p] = Branch(p, now)]
          /\ contrib' = Contribute(contrib, p, SummedGames(p, now), now)
          /\ staged' = staged \cup {p}
    /\ IF pi < NumPlayers
       THEN /\ pi' = pi + 1
            /\ pc' = "calculate"
       ELSE /\ pi' = 1
            /\ pc' = "apply"
    /\ UNCHANGED <<inputVars, gamelist, dates, gameday, gi, counts, games, elo,
                   rdev, eloVars, applied, preElo, preRdev, plays, processed>>

\* mutant: the last rdev entry is overwritten instead of a new one appended
AppliedRdevInPlace(p) == [rdev[p] EXCEPT ![Len(rdev[p])] = buffer[p][2]]

\* Player.apply_period: the new rdev and elo lists
AppliedRdev(p) == Append(rdev[p], buffer[p][2])
AppliedElo(p) == Append(elo[p], buffer[p][1])

\* main, lines 71-72: player.apply_period() for the next player
ApplyPeriod ==
    /\ prog = "ranking"
    /\ pc = "apply"
    /\ LET p == PlayerOrder[pi]
       IN /\ rdev' = [rdev EXCEPT ![p] = AppliedRdev(p)]
          /\ elo' = [elo EXCEPT ![p] = AppliedElo(p)]
          /\ applied' = applied \cup {p}
    /\ IF pi < NumPlayers
       THEN /\ pi' = pi + 1
            /\ pc' = "apply"
       ELSE /\ pi' = 1
            /\ pc' = "table"
    /\ UNCHANGED <<inputVars, gamelist, dates, gameday, gi, counts, games, buffer,
                   eloVars, staged, preElo, preRdev, branch, contrib, plays,
                   processed>>

\* main, lines 73-92: the period's table, then the next date or the summary
ShowTable ==
    /\ prog = "ranking"
    /\ pc = "table"
    /\ processed' = Append(processed, dates[gameday])
    /\ staged' = {}
    /\ applied' = {}
    /\ preElo' = elo
    /\ preRdev' = rdev
    /\ IF gameday < Len(dates)
       THEN /\ gameday' = gameday + 1
            /\ pc' = "play"
       ELSE /\ gameday' = gameday
            /\ pc' = "done"
    /\ UNCHANGED <<inputVars, gamelist, dates, gi, pi, counts, games, elo, rdev,
                   buffer, eloVars, branch, contrib, plays>>

(***************************************************************************)
(* chess_elo.py: main.                                                     *)
(***************************************************************************)
\* main, line 22: games = read_gamestxt(GAMESFILE); no date line has
\* len(line) == 8, so every game keeps the date (1970, 1, 1), written 0
EloReadGames ==
    /\ prog = "chess_elo"
    /\ pc = "read"
    /\ gamelist' = [i \in 1..Len(file) |-> NewGame(file[i], 0)]
    /\ plays' = [i \in 1..Len(file) |-> 0]
    /\ pc' = "play"
    /\ UNCHANGED <<inputVars, rankingVars, gi, eloVars, historyVars>>

\* Player.addelo on both players of Game.play of chess_elo.py
EloAfterPlay(g) ==
    LET d == EloDiff(g)
        k == DEFAULT_K_FACTOR
    IN [curelo EXCEPT ![EloGainer(g)] = @ + k * d,
                      ![EloLoser(g)] = @ + k * (0 - d)]

\* Game.play of chess_elo.py on game i; a None player raises AttributeError
\* in expected(), before anything is written
EloPlayCall(i, nextpc) ==
    LET g == gamelist[i]
    IN /\ plays' = [plays EXCEPT ![i] = @ + 1]
       /\ IF g.played
          THEN UNCHANGED <<gamelist, curelo, elohist>> /\ pc' = nextpc
          ELSE IF g.white = NoPlayer \/ g.black = NoPlayer
          THEN UNCHANGED <<gamelist, curelo, elohist>> /\ pc' = "crashed"
          ELSE /\ curelo' = EloAfterPlay(g)
               /\ elohist' = [p \in Players |->
                                IF p \in {g.white, g.black}
                                THEN Append(elohist[p], curelo'[p])
                                ELSE elohist[p]]
               /\ gamelist' = [gamelist EXCEPT ![i].played = TRUE]
               /\ pc' = nextpc

\* main, lines 23-24: game.play() for the next game
EloPlayGame ==
    /\ prog = "chess_elo"
    /\ pc = "play"
    /\ EloPlayCall(gi, IF gi < Len(gamelist) THEN "play" ELSE "done")
    /\ gi' = gi + 1
    /\ UNCHANGED <<inputVars, rankingVars, historyVars>>

Next ==
    \/ ReadGames
    \/ PlayGame
    \/ CalculatePeriod
    \/ ApplyPeriod
    \/ ShowTable
    \/ EloReadGames
    \/ EloPlayGame

Spec == Init /\ [][Next]_vars

(***************************************************************************)
(* A client that calls Game.play again on a game already played.           *)
(***************************************************************************)
Replays == SumSeq([g \in 1..Len(plays) |-> Max(plays[g] - 1, 0)])

\* Game.play of ranking.py, called again
ReplayGame ==
    /\ prog = "ranking"
    /\ pc \in {"play", "calculate", "apply", "table", "done"}
    /\ Replays < MaxReplays
    /\ \E g \in 1..Len(gamelist) :
          /\ plays[g] > 0
          /\ games' = GamesAfterPlay(g)
          /\ plays' = [plays EXCEPT ![g] = @ + 1]
          /\ gamelist' = [gamelist EXCEPT ![g].played = PlayedAfterPlay(g)]
    /\ UNCHANGED <<inputVars, pc, dates, gameday, gi, pi, counts, elo, rdev,
                   buffer, eloVars, historyVars>>

\* Game.play of chess_elo.py, called again
EloReplayGame ==
    /\ prog = "chess_elo"
    /\ pc \in {"play", "done"}
    /\ Replays < MaxReplays
    /\ \E g \in 1..Len(gamelist) :
          /\ plays[g] > 0
          /\ EloPlayCall(g, pc)
    /\ UNCHANGED <<inputVars, rankingVars, gi, historyVars>>

NextReplay == Next \/ ReplayGame \/ EloReplayGame

\* logs of one or two lines on two days
ReplayFiles == UNION {[1..n -> GameLines(Pairings, 2)] : n \in 1..2}

\* main with a client that replays games
SpecReplay == InitWith(ReplayFiles, {PENALTY}) /\ [][NextReplay]_vars

\* main under other settings of PENALTY
SpecPenalty == InitWith(SmallFiles, PenaltyConfigs) /\ [][Next]_vars

\* main on logs that name a player who is not in the league
SpecLookup == InitWith(LookupFiles, {PENALTY}) /\ [][Next]_vars

(***************************************************************************)
(* Properties.                                                             *)
(***************************************************************************)
Ranking == prog = "ranking"
Now == dates[gameday]
Participants(g) == {gamelist[g].white, gamelist[g].black}
HasGameOn(p, d) == \E i \in 1..Len(games[p]) : gamelist[games[p][i]].date = d
Prefix(s, n) == SubSeq(s, 1, n)

\* C1: in every period apply_period runs on a player only after
\* calculate_period has run on every player; until the first apply_period
\* the histories that calculate_period reads are the ones committed before
\* the period began; and when the staging loop ends the pair staged for
\* each player is the one calculate_period would stage for it then, after
\* all the others, so the order of staging does not matter.
C1_StageThenCommit ==
    Ranking =>
        /\ applied # {} => staged = Players
        /\ applied = {} => elo = preElo /\ rdev = preRdev
        /\ (staged = Players /\ applied = {}) =>
              \A p \in Players : buffer[p] = CalcBuffer(p, Now)

\* every player is staged, none committed, and a rating is about to change
C1_Witness ==
    /\ Ranking /\ pc = "apply" /\ applied = {} /\ staged = Players
    /\ \E p \in Players, q \in Players :
          /\ p # q
          /\ buffer[p][1] # CurElo(p)
          /\ buffer[q][1] # CurElo(q)

\* C2: until the first apply_period of a period every history is what it
\* was when the period began; apply_period appends one entry to the
\* player's elo and rdev and changes no earlier entry; once every player
\* has committed, all histories have the number of processed periods plus
\* one entries.
C2_AtomicCommit ==
    Ranking =>
        /\ applied = {} => elo = preElo /\ rdev = preRdev
        /\ \A p \in Players \ applied : elo[p] = preElo[p] /\ rdev[p] = preRdev[p]
        /\ \A p \in applied :
              /\ Len(elo[p]) = Len(preElo[p]) + 1
              /\ Len(rdev[p]) = Len(preRdev[p]) + 1
              /\ Prefix(elo[p], Len(preElo[p])) = preElo[p]
              /\ Prefix(rdev[p], Len(preRdev[p])) = preRdev[p]
        /\ pc = "table" =>
              \A p \in Players :
                  Len(elo[p]) = gameday + 1 /\ Len(rdev[p]) = gameday + 1
        /\ pc = "done" =>
              \A p \in Players :
                  Len(elo[p]) = Len(dates) + 1 /\ Len(rdev[p]) = Len(dates) + 1

\* the second period is committed and changed somebody's rating
C2_Witness ==
    /\ Ranking /\ pc = "table" /\ gameday = 2 /\ applied = Players
    /\ \E p \in Players : Last(elo[p]) # Last(preElo[p])

\* C3: the period list holds each date of the game log once, in strictly
\* increasing order, whatever the order of the log; the periods completed
\* are a prefix of that list, in its order; a period is played and staged
\* only when every player has committed all earlier periods; at the end
\* every period has been processed once.
C3_PeriodOrder ==
    (Ranking /\ pc # "read") =>
        /\ \A i \in 1..Len(dates), j \in 1..Len(dates) : i < j => dates[i] < dates[j]
        /\ {dates[i] : i \in 1..Len(dates)} = {file[k].date : k \in 1..Len(file)}
        /\ processed = Prefix(dates, Len(processed))
        /\ pc \in {"play", "calculate", "apply", "table"} => Len(processed) = gameday - 1
        /\ pc \in {"play", "calculate"} =>
              \A p \in Players : Len(elo[p]) = gameday /\ Len(rdev[p]) = gameday
        /\ pc = "done" => processed = dates

\* a log whose dates are out of order has been processed to the end
C3_Witness ==
    /\ Ranking /\ pc = "done" /\ Len(processed) >= 2
    /\ \E i \in 1..Len(file), j \in 1..Len(file) : i < j /\ file[i].date > file[j].date

\* C4: calculate_period(now) takes the played-games branch exactly when
\* the player has a registered game dated now; a game enters the sums of a
\* player only if the player is one of its two players and only in the
\* period of the game's date, once; after that period is staged it has
\* entered the sums of both its players.
C4_OnePeriodPerGame ==
    (Ranking /\ pc # "read") =>
        /\ \A p \in staged : (branch[p] = "played") <=> HasGameOn(p, Now)
        /\ \A g \in 1..Len(gamelist), p \in Players :
              /\ contrib[g][p] \in {<<>>, <<gamelist[g].date>>}
              /\ contrib[g][p] # <<>> => p \in Participants(g)
              /\ (p \in Participants(g) /\
                    (\/ Index(processed, gamelist[g].date) > 0
                     \/ (p \in staged /\ gamelist[g].date = Now)))
                    => contrib[g][p] = <<gamelist[g].date>>

\* a player with games on two dates has been staged for the later one
C4_Witness ==
    /\ Ranking /\ pc = "done"
    /\ \E p \in Players : \E i \in 1..Len(games[p]), j \in 1..Len(games[p]) :
          /\ gamelist[games[p][i]].date < gamelist[games[p][j]].date
          /\ contrib[games[p][j]][p] # <<>>

\* C5 as claimed: once Game.play has been called on a game, its played
\* flag is true.
C5_PlayedFlagSet ==
    \A g \in 1..Len(gamelist) : plays[g] > 0 => gamelist[g].played

NoDuplicates(s) == \A i \in 1..Len(s), j \in 1..Len(s) : s[i] = s[j] => i = j
PlayedGamesOf(p) == {g \in 1..Len(gamelist) : plays[g] > 0 /\ p \in Participants(g)}
IsReplay == \E g \in 1..Len(plays) : plays[g] > 0 /\ plays'[g] = plays[g] + 1

\* the flags, lists and histories count every played game once
CountedOnce ==
    /\ prog = "chess_elo" =>
          /\ \A g \in 1..Len(gamelist) : gamelist[g].played <=> plays[g] > 0
          /\ \A p \in Players :
                /\ Len(elohist[p]) = 1 + Cardinality(PlayedGamesOf(p))
                /\ curelo[p] = Last(elohist[p])
    /\ prog = "ranking" =>
          /\ \A g \in 1..Len(gamelist) : ~gamelist[g].played
          /\ \A p \in Players :
                /\ NoDuplicates(games[p])
                /\ {games[p][i] : i \in 1..Len(games[p])} = PlayedGamesOf(p)

\* C5, the part that holds of both scripts: in chess_elo.py the played
\* flag is true exactly for the games played, and a player's elohist grows
\* by one entry per game played, however often it is played; in ranking.py
\* the flag stays false, and every played game is in the list of each of
\* its players exactly once; in both, a later play of a game changes no
\* rating, no history, no game list and no flag.
C5_ReplayIsNoOp ==
    /\ []CountedOnce
    /\ [][IsReplay =>
            /\ games' = games /\ gamelist' = gamelist
            /\ elo' = elo /\ rdev' = rdev /\ buffer' = buffer
            /\ curelo' = curelo /\ elohist' = elohist]_vars

\* ranking.py has finished a run in which a game was played twice
C5_Witness ==
    /\ Ranking /\ pc = "done"
    /\ \E g \in 1..Len(plays) : plays[g] = 2 /\ Len(games[gamelist[g].white]) = 2

RECURSIVE SumOver(_, _)
SumOver(f, S) ==
    IF S = {} THEN 0
    ELSE LET x == CHOOSE y \in S : TRUE IN f[x] + SumOver(f, S \ {x})

Decisive(g) == gamelist[g].winner_id \in {0, 1}
WinnerOf(g) == IF gamelist[g].winner_id = 0 THEN gamelist[g].white ELSE gamelist[g].black
LoserOf(g) == IF gamelist[g].winner_id = 0 THEN gamelist[g].black ELSE gamelist[g].white
\* rating change of p in the period just committed, and by its last game
PeriodGain(p) == Last(elo[p]) - Last(preElo[p])
LastGain(p) == Last(elohist[p]) - elohist[p][Len(elohist[p]) - 1]

\* C6: with the equal K-factors the scripts give every player, in
\* chess_elo.py and in classic mode of ranking.py: the ratings of the league
\* add up to what they added up to at the start; a decisive game that is
\* the only game of both its players in its period (in chess_elo.py: every
\* game) raises the winner's rating by exactly what it takes from the
\* loser's; one decisive game between two players at 1500 leaves them at
\* 1510 and 1490.
C6_ZeroSum ==
    /\ (prog = "chess_elo" /\ pc \in {"play", "done"}) =>
          /\ SumOver(curelo, Players) = NumPlayers * STARTING_ELO * Milli
          /\ (gi > 1 /\ Decisive(gi - 1)) =>
                /\ LastGain(WinnerOf(gi - 1)) > 0
                /\ LastGain(WinnerOf(gi - 1)) + LastGain(LoserOf(gi - 1)) = 0
          /\ (pc = "done" /\ Len(file) = 1 /\ Decisive(1)) =>
                /\ curelo[WinnerOf(1)] = (STARTING_ELO + 10) * Milli
                /\ curelo[LoserOf(1)] = (STARTING_ELO - 10) * Milli
    /\ (Ranking /\ ~GLICKO /\ pc \in {"table", "done"}) =>
          /\ SumOver([p \in Players |-> Last(elo[p])], Players)
                = NumPlayers * STARTING_ELO * Milli
          /\ pc = "table" =>
                \A g \in 1..Len(gamelist) :
                    (/\ gamelist[g].date = Now /\ Decisive(g)
                     /\ LastGames(WinnerOf(g), Now) = <<g>>
                     /\ LastGames(LoserOf(g), Now) = <<g>>) =>
                        /\ PeriodGain(WinnerOf(g)) > 0
                        /\ PeriodGain(WinnerOf(g)) + PeriodGain(LoserOf(g)) = 0
          /\ (pc = "done" /\ Len(file) = 1 /\ Decisive(1)) =>
                /\ CurElo(WinnerOf(1)) = (STARTING_ELO + 10) * Milli
                /\ CurElo(LoserOf(1)) = (STARTING_ELO - 10) * Milli

\* classic ranking.py after a log of one game that black won
C6_Witness ==
    /\ Ranking /\ ~GLICKO /\ pc = "done" /\ Len(file) = 1
    /\ gamelist[1].winner_id = 1
    /\ CurElo(gamelist[1].black) = 1510 * Milli
    /\ CurElo(gamelist[1].white) = 1490 * Milli

\* game days since p's last game, p having played
IdleStreak(p) == gameday - Index(dates, gamelist[Last(games[p])].date)

\* C7 as claimed: in Glicko mode a player who has played and then sat out
\* UNCERT_TIME or more periods in a row has the deviation STARTING_RD.
C7_IdleDeviationReset ==
    (Ranking /\ GLICKO /\ pc = "table") =>
        \A p \in Players :
            (games[p] # <<>> /\ IdleStreak(p) >= UNCERT_TIME)
                => CurRdev(p) = STARTING_RD * Centi

\* C8: across a period in which a player has a game its committed
\* deviation does not increase; across a period in which it has none the
\* deviation does not decrease and does not exceed STARTING_RD; in both
\* modes.
C8_DeviationMonotone ==
    Ranking =>
        \A p \in applied :
            /\ HasGameOn(p, Now) => Last(rdev[p]) <= Last(preRdev[p])
            /\ ~HasGameOn(p, Now) =>
                  /\ Last(preRdev[p]) <= Last(rdev[p])
                  /\ Last(rdev[p]) <= STARTING_RD * Centi

\* Glicko: an idle period has brought a deviation back up to STARTING_RD,
\* and a player who played in the same period has a smaller one than before
C8_Witness ==
    /\ Ranking /\ GLICKO /\ applied = Players
    /\ \E p \in Players :
          /\ ~HasGameOn(p, Now) /\ games[p] # <<>>
          /\ Last(preRdev[p]) < STARTING_RD * Centi
          /\ Last(rdev[p]) = STARTING_RD * Centi
    /\ \E p \in Players :
          HasGameOn(p, Now) /\ Last(rdev[p]) < Last(preRdev[p])

\* C9 as claimed: calculate_period takes at most MAX_PENALTY from the
\* rating of a player without a game in the period, and never takes a
\* rating that was at or above PENALTY_CUTOFF below it.
C9_PenaltyBounded ==
    (Ranking /\ applied = {}) =>
        \A p \in staged :
            (branch[p] \in {"never", "idle"}) =>
                /\ CurElo(p) - buffer[p][1] <= MAX_PENALTY * Milli
                /\ (CurElo(p) >= PENALTY_CUTOFF * Milli
                      => buffer[p][1] >= PENALTY_CUTOFF * Milli)

\* C10 as claimed: a run ends having processed every period, with no game
\* of an unknown player in the game log or in a player's games.
C10_UnknownIdDropped ==
    pc \in {"done", "crashed"} =>
        /\ pc = "done"
        /\ \A g \in 1..Len(gamelist) : NoPlayer \notin Participants(g)
        /\ Ranking => processed = dates

\* C11 as claimed: a player's buffer holds a staged pair only between its
\* calculate_period and its apply_period of the same period; before the
\* first and after the second it is the empty pair of Player.__init__.
C11_BufferEmptyOutsidePeriod ==
    Ranking =>
        \A p \in Players :
            (p \notin staged \/ p \in applied) => buffer[p] = <<None, None>>

=============================================================================
